---- MODULE Spec2Model ----
(***************************************************************************)
(* A model of src/app/app.py: the file cache (save_to_cache,               *)
(* load_from_cache, clear_cache), fetch_page run by the worker threads of  *)
(* the ThreadPoolExecutor, and the extraction rules of the routes.         *)
(***************************************************************************)
EXTENDS Integers, Sequences, FiniteSets, TLC

VARIABLES
    now,        \* datetime.now(), in hours
    file,       \* the cache file of the one URL under study (get_cache_path(url))
    th,         \* per worker thread: its position in fetch_page and its locals
    fetches,    \* number of fetch_page calls started so far
    queue,      \* the executor's work queue: submitted calls no worker has taken
    running,    \* workers inside requests.get that will get an answer
    stuck,      \* workers inside a requests.get that never returns
    probe,      \* the request under observation, whose URL is in the cache
    submitted,  \* number of executor.submit calls so far
    href,       \* a link as found in the markup (an href, an option value)
    site_base_url, \* the base URL chosen for the operation
    urls,       \* what each place of the code that handles a link made of href
    request,    \* the arguments of a /book request
    soup,       \* the parsed page book_detail works on
    detail      \* what book_detail hands to the template, or the error it ends in

cacheVars == <<now, file, th, fetches>>
poolVars == <<queue, running, stuck, probe, submitted>>
linkVars == <<href, site_base_url, urls>>
pageVars == <<request, soup, detail>>
vars == <<cacheVars, poolVars, linkVars, pageVars>>

\* the variables each part of the model leaves alone
notCache == <<poolVars, linkVars, pageVars>>
notPool == <<cacheVars, linkVars, pageVars>>
notLinks == <<cacheVars, poolVars, pageVars>>
notPage == <<cacheVars, poolVars, linkVars>>

(***************************************************************************)
(* Bounds of the model.                                                    *)
(***************************************************************************)
MaxFetches == 3
MaxTicks == 1
MaxRequests == 12
MaxLinkLen == 5
MaxItems == 4
MaxOptions == 2

\* load_from_cache(url, expiry_hours=24)
EXPIRY_HOURS == 24

Threads == {1, 2}

\* executor = ThreadPoolExecutor(max_workers=10)
max_workers == 10

(***************************************************************************)
(* The cache file.  A file is written by the buffered writer in several    *)
(* write calls; a chunk stands for what one of them carries.  json.dump    *)
(* emits the timestamp first, then the data string, then the closing       *)
(* brace; the data string of a page spans two chunks.                      *)
(***************************************************************************)
Hdr(ts) == [k |-> "hdr", ts |-> ts, p |-> ""]
Dat(p) == [k |-> "dat", ts |-> 0, p |-> p]
End == [k |-> "end", ts |-> 0, p |-> ""]
Nul == [k |-> "nul", ts |-> 0, p |-> ""]

None == <<"None">>

\* response.text of a 2xx answer: the page, which may differ between two requests
OkBody == <<"a1", "a2">>
OkBodies == {OkBody, <<"b1", "b2">>}
\* response.text of a non-2xx answer: the server's error page
ErrBody == <<"e1", "e2">>
Payloads == OkBodies \cup {ErrBody}

NoFile == [exists |-> FALSE, data |-> <<>>]
NoEntry == [ts |-> 0 - 1, data |-> None]
NoStore == [some |-> FALSE, ts |-> 0, data |-> None]

\* json.dump(cache_data, f, ensure_ascii=False, indent=2): the bytes of an entry
Serialize(ts, data) ==
    <<Hdr(ts)>> \o [i \in 1..Len(data) |-> Dat(data[i])] \o <<End>>

\* json.load(f): a document is an entry only if it is complete
WellFormed(f) ==
    /\ Len(f) = 4
    /\ f[1].k = "hdr"
    /\ f[2].k = "dat"
    /\ f[3].k = "dat"
    /\ f[4].k = "end"

Parse(f) == [ts |-> f[1].ts, data |-> <<f[2].p, f[3].p>>]

\* a write of chunk c at byte offset off (0-based) of a file opened with 'w'
WriteAt(f, off, c) ==
    IF off < Len(f)
    THEN [f EXCEPT ![off + 1] = c]
    ELSE f \o [i \in 1..(off - Len(f)) |-> Nul] \o <<c>>

\* datetime.now() - timestamp > timedelta(hours=expiry_hours)
ExpiredOffByOne(ts, t) == t - ts >= EXPIRY_HOURS
Expired(ts, t) == t - ts > EXPIRY_HOURS

(***************************************************************************)
(* fetch_page, one action per step of a worker thread.                     *)
(***************************************************************************)
Idle ==
    [pc |-> "idle", cached |-> None, entry |-> NoEntry, outcome |-> "none",
     content |-> None, netCalls |-> 0, ts |-> 0, off |-> 0, linked |-> FALSE,
     wrote |-> FALSE, result |-> None, prior |-> NoStore, cleared |-> FALSE,
     evicted |-> FALSE, stale |-> FALSE]

\* what the fetch_page call a thread has returned from stored in the cache
Stored(l) ==
    IF l.pc = "done" /\ l.wrote /\ ~l.cleared
    THEN [some |-> TRUE, ts |-> l.ts, data |-> l.result]
    ELSE NoStore

\* the locals of a call that has returned
Return(l, r) ==
    [l EXCEPT !.pc = "done", !.result = r, !.entry = NoEntry, !.content = None,
              !.off = 0, !.linked = FALSE, !.stale = FALSE]

\* executor.submit(fetch_page, url): a worker starts fetch_page
Start(t) ==
    /\ th[t].pc \in {"idle", "done"}
    /\ fetches < MaxFetches
    /\ fetches' = fetches + 1
    /\ th' = [th EXCEPT ![t] = [Idle EXCEPT !.pc = "exists", !.prior = Stored(th[t])]]
    /\ UNCHANGED <<now, file, notCache>>

\* load_from_cache: if not os.path.exists(cache_path): return None
Exists(t) ==
    /\ th[t].pc = "exists"
    /\ th' = [th EXCEPT ![t].pc = IF file.exists THEN "read" ELSE "net"]
    /\ UNCHANGED <<now, file, fetches, notCache>>

\* load_from_cache: open(cache_path, 'r') and json.load(f); any exception
\* (file gone, malformed document) is caught and None is returned (stale
\* records whether the entry read was already expired when it was read)
Read(t) ==
    /\ th[t].pc = "read"
    /\ IF file.exists /\ WellFormed(file.data)
       THEN th' = [th EXCEPT ![t].pc = "check", ![t].entry = Parse(file.data),
                             ![t].stale = Expired(Parse(file.data).ts, now)]
       ELSE th' = [th EXCEPT ![t].pc = "net", ![t].cached = None]
    /\ UNCHANGED <<now, file, fetches, notCache>>

\* load_from_cache: the expiry test, os.remove(cache_path) and the return
Check(t) ==
    /\ th[t].pc = "check"
    /\ IF Expired(th[t].entry.ts, now)
       THEN /\ file' = NoFile
            /\ th' = [u \in Threads |->
                        IF u = t
                        THEN [th[u] EXCEPT !.pc = "net", !.cached = None,
                                           !.entry = NoEntry, !.evicted = TRUE,
                                           !.stale = FALSE]
                        ELSE [th[u] EXCEPT !.linked = FALSE]]
       ELSE /\ file' = file
            /\ th' = [th EXCEPT ![t] = Return([@ EXCEPT !.cached = th[t].entry.data],
                                                th[t].entry.data)]
    /\ UNCHANGED <<now, fetches, notCache>>

\* fetch_page: requests.get(url, headers=headers); response.text is taken
\* whatever the status code; an exception returns None
Net(t) ==
    /\ th[t].pc = "net"
    /\ \/ \E b \in OkBodies :
            th' = [th EXCEPT ![t].pc = "open", ![t].outcome = "ok", ![t].content = b,
                             ![t].netCalls = @ + 1, ![t].evicted = FALSE]
       \/ th' = [th EXCEPT ![t].pc = "open", ![t].outcome = "non2xx", ![t].content = ErrBody,
                           ![t].netCalls = @ + 1, ![t].evicted = FALSE]
       \/ th' = [th EXCEPT ![t] = Return([@ EXCEPT !.outcome = "error", !.netCalls = @ + 1,
                                                      !.evicted = FALSE], None)]
    /\ UNCHANGED <<now, file, fetches, notCache>>

\* save_to_cache: the timestamp is taken, open(cache_path, 'w') truncates
\* the file (or creates it)
Open(t) ==
    /\ th[t].pc = "open"
    /\ file' = [exists |-> TRUE, data |-> <<>>]
    /\ th' = [u \in Threads |->
                IF u = t
                THEN [th[u] EXCEPT !.pc = "write", !.ts = now, !.off = 0,
                                   !.linked = TRUE, !.wrote = TRUE]
                ELSE IF file.exists THEN th[u]
                     ELSE [th[u] EXCEPT !.linked = FALSE]]
    /\ UNCHANGED <<now, fetches, notCache>>

\* save_to_cache: one write call of json.dump at the writer's own offset; the
\* last one is followed by the close and by fetch_page's return content
Write(t) ==
    /\ th[t].pc = "write"
    /\ LET bytes == Serialize(th[t].ts, th[t].content)
           last == th[t].off + 1 = Len(bytes)
       IN /\ file' = IF th[t].linked
                     THEN [file EXCEPT !.data = WriteAt(@, th[t].off, bytes[th[t].off + 1])]
                     ELSE file
          /\ th' = [th EXCEPT ![t] = IF last THEN Return(@, th[t].content)
                                      ELSE [@ EXCEPT !.off = @ + 1]]
    /\ UNCHANGED <<now, fetches, notCache>>

\* clear_cache: os.unlink of every file of CACHE_DIR (what a call stored, or
\* found stored by its predecessor, is no longer there)
ClearCache ==
    /\ file' = NoFile
    /\ th' = [u \in Threads |->
                [th[u] EXCEPT !.linked = FALSE, !.prior = NoStore,
                              !.cleared = th[u].wrote]]
    /\ UNCHANGED <<now, fetches, notCache>>

\* time passes (half an expiry period at a time)
Tick ==
    /\ now < EXPIRY_HOURS + MaxTicks * (EXPIRY_HOURS \div 2)
    /\ now' = now + (EXPIRY_HOURS \div 2)
    /\ UNCHANGED <<file, th, fetches, notCache>>

(***************************************************************************)
(* The worker pool: every route hands its fetch_page call to the executor  *)
(* and blocks on future.result().  requests.get is given no timeout, so a  *)
(* call to a server that never answers never returns.                      *)
(***************************************************************************)
BusyWorkers == running + stuck + (IF probe = "running" THEN 1 ELSE 0)

\* a queued call is taken as soon as one of the max_workers threads is free
IdleWorkerOffByOne == BusyWorkers < max_workers - 1
IdleWorker == BusyWorkers < max_workers

\* executor.submit(fetch_page, url) of a request whose URL is not cached
SubmitMiss ==
    /\ submitted < MaxRequests
    /\ submitted' = submitted + 1
    /\ queue' = Append(queue, "miss")
    /\ UNCHANGED <<running, stuck, probe, notPool>>

\* executor.submit(fetch_page, url) of the request whose URL is cached
SubmitProbe ==
    /\ submitted < MaxRequests
    /\ probe = "none"
    /\ submitted' = submitted + 1
    /\ queue' = Append(queue, "probe")
    /\ probe' = "queued"
    /\ UNCHANGED <<running, stuck, notPool>>

\* a free worker takes the oldest queued call and runs fetch_page: a miss goes
\* on to requests.get, the cached URL is served by load_from_cache
WorkerTakes ==
    /\ queue # <<>>
    /\ IdleWorker
    /\ queue' = Tail(queue)
    /\ IF Head(queue) = "miss"
       THEN running' = running + 1 /\ probe' = probe
       ELSE running' = running /\ probe' = "running"
    /\ UNCHANGED <<stuck, submitted, notPool>>

\* requests.get returns (or raises); fetch_page returns and the worker is free
NetReturn ==
    /\ running > 0
    /\ running' = running - 1
    /\ UNCHANGED <<queue, stuck, probe, submitted, notPool>>

\* the server never answers: requests.get (no timeout) blocks for good
NetStuck ==
    /\ running > 0
    /\ running' = running - 1
    /\ stuck' = stuck + 1
    /\ UNCHANGED <<queue, probe, submitted, notPool>>

\* fetch_page returns the cached page; future.result() hands it to the route
ProbeReturn ==
    /\ probe = "running"
    /\ probe' = "done"
    /\ UNCHANGED <<queue, running, stuck, submitted, notPool>>

PoolInit ==
    /\ queue = <<>>
    /\ running = 0
    /\ stuck = 0
    /\ probe = "none"
    /\ submitted = 0

PoolNext ==
    \/ SubmitMiss
    \/ SubmitProbe
    \/ WorkerTakes
    \/ NetReturn
    \/ NetStuck
    \/ ProbeReturn

(***************************************************************************)
(* Links.  A string is the sequence of its characters; the base URLs stand *)
(* as one element each.                                                    *)
(***************************************************************************)
\* BASE_URL = "https://www.kanshulao.com"
BASE_URL == <<"https://www.kanshulao.com">>
\* "https://www.lkyuedu.com", chosen when "lkyuedu.com" is in the URL
LKYUEDU_URL == <<"https://www.lkyuedu.com">>

Chars == {"h", "t", "p", "/", "c"}

RECURSIVE Strings(_)
Strings(n) ==
    IF n = 0 THEN {<<>>}
    ELSE LET shorter == Strings(n - 1)
         IN shorter \cup {Append(w, ch) : w \in {x \in shorter : Len(x) = n - 1}, ch \in Chars}

\* str.startswith(prefix)
StartsWith(str, prefix) ==
    /\ Len(str) >= Len(prefix)
    /\ SubSeq(str, 1, Len(prefix)) = prefix

Unset == <<"unset">>

\* index(): BASE_URL + a['href'] if a['href'].startswith('/') else a['href']
\* (the book link and the author link of a recommendation)
IndexLink(link) ==
    IF StartsWith(link, <<"/">>) THEN BASE_URL \o link ELSE link

\* search(): 'book_url': book_link['href']
SearchLink(link) == link

\* book_detail() and chapter(): the if / elif / else on a link, as written for
\* book_url, the chapter hrefs, the option values, the pagination hrefs,
\* chapter_url and the prev / next / info hrefs
SiteLink(base, link) ==
    IF StartsWith(link, <<"/">>) THEN base \o link
    ELSE IF ~StartsWith(link, <<"h", "t", "t", "p">>) THEN base \o <<"/">> \o link
    ELSE link

\* index(): the links of a recommendation entry
IndexLinks ==
    /\ urls.book_url = Unset
    /\ urls' = [urls EXCEPT !.book_url = IndexLink(href), !.author_url = IndexLink(href)]
    /\ UNCHANGED <<href, site_base_url, notLinks>>

\* search(): the book link of a result item
SearchLinks ==
    /\ urls.search_url = Unset
    /\ urls' = [urls EXCEPT !.search_url = SearchLink(href)]
    /\ UNCHANGED <<href, site_base_url, notLinks>>

\* book_detail(): the book URL, a chapter link, an option value, a pagination href
BookDetailLinks ==
    /\ urls.chapter_url = Unset
    /\ urls' = [urls EXCEPT !.full_book_url = SiteLink(site_base_url, href),
                            !.chapter_url = SiteLink(site_base_url, href),
                            !.option_url = SiteLink(site_base_url, href),
                            !.page_href = SiteLink(site_base_url, href)]
    /\ UNCHANGED <<href, site_base_url, notLinks>>

\* chapter(): the chapter URL and the prev / next / info links
ChapterLinks ==
    /\ urls.prev_url = Unset
    /\ urls' = [urls EXCEPT !.full_url = SiteLink(site_base_url, href),
                            !.prev_url = SiteLink(site_base_url, href),
                            !.next_url = SiteLink(site_base_url, href),
                            !.info_url = SiteLink(site_base_url, href)]
    /\ UNCHANGED <<href, site_base_url, notLinks>>

NoUrls ==
    [book_url |-> Unset, author_url |-> Unset, search_url |-> Unset,
     full_book_url |-> Unset, chapter_url |-> Unset, option_url |-> Unset,
     page_href |-> Unset, full_url |-> Unset, prev_url |-> Unset,
     next_url |-> Unset, info_url |-> Unset]

LinksInit ==
    /\ href \in Strings(MaxLinkLen)
    /\ site_base_url \in {BASE_URL, LKYUEDU_URL}
    /\ urls = NoUrls

LinksAtRest ==
    /\ href = <<>>
    /\ site_base_url = BASE_URL
    /\ urls = NoUrls

LinksNext ==
    \/ IndexLinks
    \/ SearchLinks
    \/ BookDetailLinks
    \/ ChapterLinks

(***************************************************************************)
(* book_detail: the extraction from the fetched page.  The page is a       *)
(* sequence of containers (the parents of the headings and boxes), each a  *)
(* sequence of elements in document order, plus the pagination controls.   *)
(* Texts are sequences of tokens.                                          *)
(***************************************************************************)
\* the marker looked for in a heading: the four characters "latest chapters"
LATEST == "latest_chapters"
\* the word "main text" that titles the chapter index
BODY == "main_text"

LatestText == <<"<<", "book", ">>", LATEST>>
BodyText == <<"<<", "book", ">>", BODY>>

\* an attribute the element does not carry
NoAttr == <<"noattr">>
NoPos == <<0, 0>>

\* <h2 class="layout-tit">text</h2>
H2(text) == [k |-> "h2", text |-> text, a |-> NoAttr, denied |-> FALSE]
\* <div class="section-box"><ul class="section-list"><li><a href=a>
Box(a) == [k |-> "box", text |-> <<>>, a |-> a, denied |-> FALSE]
\* a <ul class="section-list"> outside any section-box; denied: one of its
\* anchors has a text of the denylist
Ul(a, denied) == [k |-> "ul", text |-> <<>>, a |-> a, denied |-> denied]

\* <option value=value [selected]>
Option(value, selected) == [value |-> value, selected |-> selected]
\* <div class="index-container"> with or without <select id="indexselect">
Container(select, options) == [select |-> select, options |-> options]
\* <div class="pages"> with its anchors, or no such div
PagesDiv(present, links) == [present |-> present, links |-> links]
\* <a href=h [class="current"]>text</a>
PageAnchor(h, current) == [href |-> h, current |-> current]

\* '...' in layout_tit.get_text()
Contains(text, tok) == \E i \in 1..Len(text) : text[i] = tok

\* soup.find_all of the elements of kind k of one container, in document order
RowPos(rows, r, k) ==
    SelectSeq([i \in 1..Len(rows[r]) |-> <<r, i>>],
              LAMBDA q : rows[q[1]][q[2]].k = k)

\* soup.find_all(...): the elements of kind k of the page, in document order
RECURSIVE FindFrom(_, _, _)
FindFrom(rows, r, k) ==
    IF r > Len(rows) THEN <<>>
    ELSE RowPos(rows, r, k) \o FindFrom(rows, r + 1, k)
FindAll(rows, k) == FindFrom(rows, 1, k)

\* parent.find('h2', class_='layout-tit'): the first heading inside a container
FirstH2(rows, r) ==
    LET hs == RowPos(rows, r, "h2") IN IF hs = <<>> THEN NoPos ELSE hs[1]

\* the while loop on current.parent: the heading of the nearest ancestor that
\* holds one, which is the list's container or else the document
AncestorH2(rows, r) ==
    IF FirstH2(rows, r) # NoPos THEN FirstH2(rows, r)
    ELSE LET hs == FindAll(rows, "h2") IN IF hs = <<>> THEN NoPos ELSE hs[1]

\* layout_tit and the marker in layout_tit.get_text()
IsLatest(rows, h) == h # NoPos /\ Contains(rows[h[1]][h[2]].text, LATEST)

\* the loop over section_boxes: a box is skipped when the heading found in
\* its parent carries the marker
KeepBox(rows, q) == ~IsLatest(rows, FirstH2(rows, q[1]))

\* the loop over section_lists: skipped under a "latest" heading or with a
\* denylisted anchor
KeepList(rows, q) ==
    /\ ~IsLatest(rows, AncestorH2(rows, q[1]))
    /\ ~rows[q[1]][q[2]].denied

\* filtered_boxes, as positions of the containers the chapters are read from
FilteredBoxes(rows) ==
    LET section_boxes == FindAll(rows, "box")
        filtered == SelectSeq(section_boxes, LAMBDA q : KeepBox(rows, q))
        boxes == IF filtered = <<>> /\ section_boxes # <<>> THEN section_boxes ELSE filtered
        section_lists == FindAll(rows, "ul")
        filtered_lists == SelectSeq(section_lists, LAMBDA q : KeepList(rows, q))
        lists == IF filtered_lists = <<>> /\ section_lists # <<>>
                 THEN section_lists ELSE filtered_lists
    IN IF boxes # <<>> THEN boxes ELSE lists

\* custom_url, else the lkyuedu base when "lkyuedu.com" is in the URL, else BASE_URL
SiteBase(req) ==
    IF req.custom_url # <<>> THEN req.custom_url
    ELSE IF Contains(IF req.book_url # <<>> THEN req.book_url ELSE req.page_url,
                     LKYUEDU_URL[1])
         THEN LKYUEDU_URL
         ELSE BASE_URL

\* the chapter entries of the li of one container: a_tag['href'] and the link rule
Chapter(rows, base, q) ==
    [title |-> <<"chapter">>, url |-> SiteLink(base, rows[q[1]][q[2]].a), src |-> q]

Chapters(rows, base) ==
    LET fb == FilteredBoxes(rows) IN [i \in 1..Len(fb) |-> Chapter(rows, base, fb[i])]

\* a_tag['href'] raises KeyError on an anchor without href
ChaptersRaise(rows) ==
    LET fb == FilteredBoxes(rows)
    IN \E i \in 1..Len(fb) : rows[fb[i][1]][fb[i][2]].a = NoAttr

\* '/book?' + urlencode(internal_params)
InternalUrl(req, full) ==
    [page_url |-> full,
     source |-> IF req.source # "" THEN req.source
                ELSE IF Contains(full, LKYUEDU_URL[1]) THEN "lkyuedu" ELSE "kanshulao",
     custom_url |-> req.custom_url]

\* the first index-container that holds a select, if any
RECURSIVE FirstSelectFrom(_, _)
FirstSelectFrom(cs, i) ==
    IF i > Len(cs) THEN 0
    ELSE IF cs[i].select THEN i ELSE FirstSelectFrom(cs, i + 1)
FirstSelect(cs) == FirstSelectFrom(cs, 1)

\* the loop over index_containers, left at the first select found
SelectLinks(req, cs) ==
    LET i == FirstSelect(cs)
    IN IF i = 0 THEN <<>>
       ELSE [j \in 1..Len(cs[i].options) |->
               [text |-> <<"page">>,
                value |-> InternalUrl(req, SiteLink(SiteBase(req), cs[i].options[j].value)),
                selected |-> cs[i].options[j].selected,
                via |-> "select"]]

\* option['value'] raises KeyError on an option without value
SelectRaises(cs) ==
    LET i == FirstSelect(cs)
    IN i # 0 /\ \E j \in 1..Len(cs[i].options) : cs[i].options[j].value = NoAttr

\* the anchors of the pagination / pages div that have an href and a text
DivLinks(req, div) ==
    IF ~div.present THEN <<>>
    ELSE LET usable == SelectSeq(div.links, LAMBDA l : l.href # NoAttr)
         IN [j \in 1..Len(usable) |->
               [text |-> <<"page">>,
                value |-> InternalUrl(req, SiteLink(SiteBase(req), usable[j].href)),
                selected |-> usable[j].current,
                via |-> "div"]]

\* if not pagination: the div is looked at only when the select gave nothing
UseDivAlways(cs, fromSelect) == TRUE
UseDiv(cs, fromSelect) == fromSelect = <<>>

Pagination(req, page) ==
    LET fromSelect == SelectLinks(req, page.index_containers)
    IN IF UseDiv(page.index_containers, fromSelect)
       THEN DivLinks(req, page.pagination_div)
       ELSE fromSelect

\* re.sub(r'[<<>>]', '', text).replace(LATEST, '').replace(BODY, '')
StripTitle(text) == SelectSeq(text, LAMBDA t : t \notin {"<<", ">>", LATEST, BODY})

\* an og meta tag with content, else the fallback, else the placeholder
Meta(page, prop, placeholder) ==
    IF prop \in page.meta THEN <<prop>> ELSE placeholder

BookInfo(page) ==
    LET hs == FindAll(page.rows, "h2")
    IN [title |-> IF "og:novel:book_name" \in page.meta THEN <<"og:novel:book_name">>
                  ELSE IF hs # <<>> THEN StripTitle(page.rows[hs[1][1]][hs[1][2]].text)
                  ELSE <<"unknown book">>,
        author |-> Meta(page, "og:novel:author", <<"unknown author">>),
        category |-> Meta(page, "og:novel:category", <<"unknown category">>),
        status |-> Meta(page, "og:novel:status", <<"unknown status">>),
        update_time |-> Meta(page, "og:novel:update_time", <<"unknown update time">>),
        lastest_chapter |-> Meta(page, "og:novel:lastest_chapter_name", <<"no latest chapter">>),
        description |-> Meta(page, "og:description", <<"no description">>),
        cover |-> Meta(page, "og:image", <<>>)]

\* the uncaught KeyError: the request ends with an error instead of a record
Error == [error |-> TRUE, book_info |-> <<>>, chapters |-> <<>>, pagination |-> <<>>]
NoDetail == [error |-> FALSE, book_info |-> <<>>, chapters |-> <<>>, pagination |-> <<>>]

\* book_detail(), from the parsed page to render_template
BookDetail ==
    /\ detail = NoDetail
    /\ detail' = IF ChaptersRaise(soup.rows) \/ SelectRaises(soup.index_containers)
                 THEN Error
                 ELSE [error |-> FALSE,
                       book_info |-> BookInfo(soup),
                       chapters |-> Chapters(soup.rows, SiteBase(request)),
                       pagination |-> Pagination(request, soup)]
    /\ UNCHANGED <<request, soup, notPage>>

OgProps ==
    {"og:novel:book_name", "og:novel:author", "og:novel:category", "og:novel:status",
     "og:novel:update_time", "og:novel:lastest_chapter_name", "og:description", "og:image"}

Elements ==
    {H2(LatestText), H2(BodyText), Box(<<"/", "c">>), Box(NoAttr),
     Ul(<<"/", "c">>, FALSE), Ul(<<"/", "c">>, TRUE)}

RECURSIVE SeqsUpTo(_, _)
SeqsUpTo(S, n) ==
    IF n = 0 THEN {<<>>}
    ELSE LET shorter == SeqsUpTo(S, n - 1)
         IN shorter \cup {Append(w, x) : w \in {y \in shorter : Len(y) = n - 1}, x \in S}

\* a container that has headings opens with one, as the sections of the
\* site's pages do (heading first, then its box)
HeadingFirst(r) == (\E i \in 1..Len(r) : r[i].k = "h2") => r[1].k = "h2"

\* pages of one or two containers holding MaxItems elements at most
Rows ==
    LET row == {r \in SeqsUpTo(Elements, MaxItems) \ {<<>>} : HeadingFirst(r)}
    IN {<<>>} \cup {<<r>> : r \in row}
       \cup UNION {{<<r1, r2>> : r1 \in {r \in row : Len(r) = n},
                                  r2 \in {r \in row : Len(r) <= MaxItems - n}} :
                    n \in 1..(MaxItems - 1)}

PlainRequest ==
    [book_url |-> <<"/", "b">>, page_url |-> <<>>, source |-> "", custom_url |-> <<>>]

Requests ==
    {[book_url |-> b, page_url |-> <<>>, source |-> src, custom_url |-> c] :
        b \in {<<"/", "b">>, LKYUEDU_URL \o <<"/", "b">>},
        src \in {"", "lkyuedu"},
        c \in {<<>>, <<"http://custom">>}}

Options == {Option(<<"/", "p">>, FALSE), Option(<<"/", "p">>, TRUE), Option(NoAttr, FALSE)}

Containers ==
    {Container(FALSE, <<>>)} \cup {Container(TRUE, o) : o \in SeqsUpTo(Options, MaxOptions)}

PagesDivs ==
    {PagesDiv(FALSE, <<>>), PagesDiv(TRUE, <<>>),
     PagesDiv(TRUE, <<PageAnchor(<<"/", "q">>, FALSE)>>),
     PagesDiv(TRUE, <<PageAnchor(<<"/", "q">>, TRUE), PageAnchor(NoAttr, FALSE)>>)}

\* pages that vary in their headings, boxes and lists
ChapterPages ==
    {[meta |-> m, rows |-> r, index_containers |-> <<>>, pagination_div |-> PagesDiv(FALSE, <<>>)] :
        m \in {{}, OgProps}, r \in Rows}

\* pages that vary in their pagination controls
PaginationPages ==
    {[meta |-> OgProps, rows |-> <<<<H2(BodyText), Box(<<"/", "c">>)>>>>,
      index_containers |-> cs, pagination_div |-> d] :
        cs \in SeqsUpTo(Containers, 2), d \in PagesDivs}

PageInit ==
    /\ \/ request = PlainRequest /\ soup \in ChapterPages
       \/ request \in Requests /\ soup \in PaginationPages
    /\ detail = NoDetail

PageAtRest ==
    /\ request = PlainRequest
    /\ soup = [meta |-> {}, rows |-> <<>>, index_containers |-> <<>>,
               pagination_div |-> PagesDiv(FALSE, <<>>)]
    /\ detail = NoDetail

PageNext == BookDetail

(***************************************************************************)
(* The specifications.                                                     *)
(***************************************************************************)
\* the cache directory outlives the process: it may hold no entry, an entry of
\* an earlier run, or the document an interrupted write left behind
InitFiles ==
    {NoFile,
     [exists |-> TRUE, data |-> Serialize(0, OkBody)],
     [exists |-> TRUE, data |-> <<Hdr(0), Dat("a1")>>]}

CacheInit ==
    /\ now = EXPIRY_HOURS
    /\ file \in InitFiles
    /\ th = [t \in Threads |-> Idle]
    /\ fetches = 0

CacheNext ==
    \/ \E t \in Threads : Start(t)
    \/ \E t \in Threads : Exists(t)
    \/ \E t \in Threads : Read(t)
    \/ \E t \in Threads : Check(t)
    \/ \E t \in Threads : Net(t)
    \/ \E t \in Threads : Open(t)
    \/ \E t \in Threads : Write(t)
    \/ ClearCache
    \/ Tick

\* the cache at rest, for the specifications that are not about it
CacheAtRest ==
    /\ now = EXPIRY_HOURS
    /\ file = NoFile
    /\ th = [t \in Threads |-> Idle]
    /\ fetches = 0

\* fetch_page calls of one URL running on the executor's threads
Init == CacheInit /\ PoolInit /\ LinksAtRest /\ PageAtRest

Next == CacheNext

Spec == Init /\ [][Next]_vars

\* the executor: a worker does take a queued call when one is free, a call in
\* requests.get gets its answer or turns out to be stuck, a cache hit returns
InitPool == CacheAtRest /\ PoolInit /\ LinksAtRest /\ PageAtRest

NextPool == PoolNext

SpecPool ==
    /\ InitPool
    /\ [][NextPool]_vars
    /\ WF_vars(WorkerTakes)
    /\ WF_vars(NetReturn \/ NetStuck)
    /\ WF_vars(ProbeReturn)

\* the routes' handling of one link, for every link up to MaxLinkLen characters
InitLinks == CacheAtRest /\ PoolInit /\ LinksInit /\ PageAtRest

NextLinks == LinksNext

SpecLinks == InitLinks /\ [][NextLinks]_vars

\* book_detail on every page of the bounded shapes
InitDetail == CacheAtRest /\ PoolInit /\ LinksAtRest /\ PageInit

NextDetail == PageNext

SpecDetail == InitDetail /\ [][NextDetail]_vars

(***************************************************************************)
(* Properties of the cache and of fetch_page.                              *)
(***************************************************************************)

\* C1: a fetch whose network request failed (a non-2xx response, a connection
\* error) returns a failure result and has written nothing to the cache.
C1_FailedFetchNotCached ==
    \A t \in Threads :
        (th[t].pc = "done" /\ th[t].outcome \in {"non2xx", "error"})
            => (th[t].result = None /\ ~th[t].wrote)

\* C2: the lookup of an entry older than the expiry returns absent and leaves no
\* file behind; the lookup of an entry not older than the expiry returns its
\* payload and leaves the file as it is.
C2_LazyEviction ==
    [][\A t \in Threads :
          (th[t].pc = "check" /\ th'[t].pc # "check")
              => IF now - th[t].entry.ts > EXPIRY_HOURS
                 THEN th'[t].cached = None /\ ~file'.exists
                 ELSE /\ th'[t].cached = th[t].entry.data
                      /\ th'[t].result = th[t].entry.data
                      /\ file' = file]_vars

\* a lookup has evicted an expired entry after another lookup was served the
\* entry at the age of exactly the expiry
C2_Witness ==
    \E t, u \in Threads :
        /\ th[t].pc = "net" /\ th[t].evicted /\ ~file.exists
        /\ th[u].pc = "done" /\ th[u].cached = OkBody /\ th[u].netCalls = 0

\* C3: a lookup returns absent or the complete payload of one write, never a
\* payload put together from the chunks of several writes.
C3_NoTornPayload ==
    \A t \in Threads : th[t].cached # None => th[t].cached \in Payloads

\* C5: a fetch that follows a fetch which stored the page (no clear_cache in
\* between, the entry not yet expired) issues no network request and returns
\* the stored content.
C5_FollowingFetchIsHit ==
    \A t \in Threads :
        (th[t].prior.some /\ ~Expired(th[t].prior.ts, now))
            => /\ th[t].netCalls = 0
               /\ th[t].pc \notin {"net", "open", "write"}
               /\ th[t].pc = "done" => th[t].result = th[t].prior.data

\* C11: a completed cache write is never lost to a concurrent lookup: while the
\* file holds the entry a returned fetch_page call stored and that entry is not
\* expired, the expiry step of a lookup that had read the earlier, already
\* expired entry leaves the file in place, so a following lookup returns the
\* payload.
C11_CompletedWriteKept ==
    [][\A t, u \in Threads :
          (/\ Stored(th[t]).some
           /\ ~Expired(th[t].ts, now)
           /\ file.exists
           /\ WellFormed(file.data)
           /\ Parse(file.data) = [ts |-> th[t].ts, data |-> th[t].result]
           /\ th[u].pc = "check"
           /\ th[u].stale
           /\ th'[u].pc # "check")
              => file' = file]_vars

\* C6: a lookup that finds a malformed entry returns absent and the malformed
\* file is gone afterwards.
C6_MalformedEntryDeleted ==
    [][\A t \in Threads :
          (th[t].pc = "read" /\ th'[t].pc = "net" /\ file.exists)
              => (th'[t].cached = None /\ ~file'.exists)]_vars


(***************************************************************************)
(* Properties of the worker pool.                                          *)
(***************************************************************************)

\* C4 as stated: whatever the number of stuck network calls, the request
\* whose URL is cached eventually gets its fetch result.
C4_ProbeAlwaysServed == (probe = "queued") ~> (probe = "done")

\* C4 as amended: the request whose URL is cached eventually gets its fetch
\* result unless all max_workers workers are stuck in a network call.
C4_ProbeServedUnlessPoolStuck ==
    (probe = "queued") ~> (probe = "done" \/ stuck = max_workers)

\* the cached request was served while all workers but one were stuck
C4_Witness == probe = "done" /\ stuck = max_workers - 1

(***************************************************************************)
(* Properties of the links.                                                *)
(***************************************************************************)
\* the one rule: a link beginning with http is left as it is, a link beginning
\* with '/' becomes base + link, any other link becomes base + '/' + link
ThreeWayRule(base, link) ==
    IF StartsWith(link, <<"h", "t", "t", "p">>) THEN link
    ELSE IF StartsWith(link, <<"/">>) THEN base \o link
    ELSE base \o <<"/">> \o link

\* C8: every place that handles a link gives the result of the three-way rule:
\* the recommendation book and author links and the search-result book link
\* (against BASE_URL), the chapter, pagination and navigation links (against
\* the operation's base URL).
C8_OneRuleEverywhere ==
    /\ \A f \in {"book_url", "author_url", "search_url"} :
          urls[f] # Unset => urls[f] = ThreeWayRule(BASE_URL, href)
    /\ \A f \in {"full_book_url", "chapter_url", "option_url", "page_href",
                  "full_url", "prev_url", "next_url", "info_url"} :
          urls[f] # Unset => urls[f] = ThreeWayRule(site_base_url, href)

(***************************************************************************)
(* Properties of book_detail.                                              *)
(***************************************************************************)
Returned == detail # NoDetail /\ ~detail.error

\* the heading a box stands under: the last heading before it in its container
NearestH2(rows, q) ==
    LET before == SelectSeq(RowPos(rows, q[1], "h2"), LAMBDA h : h[2] < q[2])
    IN IF before = <<>> THEN NoPos ELSE before[Len(before)]

SetOf(sq) == {sq[i] : i \in 1..Len(sq)}

\* the boxes whose nearest heading carries the "latest chapters" marker
LatestBoxes(rows) ==
    {q \in SetOf(FindAll(rows, "box")) : IsLatest(rows, NearestH2(rows, q))}

ChapterSources == {detail.chapters[i].src : i \in 1..Len(detail.chapters)}

\* C7: the chapter index holds no chapter of a section box whose nearest
\* heading carries the "latest chapters" marker, unless leaving those boxes out
\* leaves no box, in which case all boxes are used.
C7_LatestBoxesExcluded ==
    Returned =>
        LET boxes == SetOf(FindAll(soup.rows, "box"))
            latest == LatestBoxes(soup.rows)
        IN IF boxes \ latest # {}
           THEN ChapterSources \cap latest = {}
           ELSE boxes \subseteq ChapterSources

\* C9: book_detail on a fetched page always returns a record, whatever
\* attribute or element the page lacks.
C9_AlwaysARecord == detail # NoDetail => ~detail.error

====
